---- MODULE Spec2Model ----
(***************************************************************************)
(* Model of the V1AuthRelinquishment blueprint                             *)
(* (src/rns_v1_badge_lockers.rs): a component that permanently locks RNS   *)
(* V1 admin and upgrade badges.                                            *)
(*                                                                         *)
(* The state is one globalized component, the account of the caller, the   *)
(* ledger clock and the receipt of the latest transaction.  Every action   *)
(* is one ledger transaction as tests/integration.rs builds them: it is    *)
(* committed as a whole or, when the called method panics, rolled back as  *)
(* a whole.                                                                *)
(*                                                                         *)
(* Amounts are Decimal values counted in their smallest unit.  An Instant  *)
(* is a number of seconds since the epoch; the ledger time is kept in      *)
(* milliseconds.                                                           *)
(***************************************************************************)
EXTENDS Integers, Sequences, FiniteSets, TLC

\* ---- bounds of the model ------------------------------------------------
Supply == 3             \* units of every resource the caller's account holds
MaxMinutes == 1         \* the ledger clock runs over the minutes 0..MaxMinutes

\* ---- the resources of the ledger ----------------------------------------
\* the three resources tests/integration.rs creates
Resources == {"V1ADMIN", "V1UPGRADE", "FAKE"}

\* ---- ledger clock -------------------------------------------------------
MillisInSecond == 1000
SecondsInMinute == 60
MillisInMinute == MillisInSecond * SecondsInMinute

\* the ledger times of the model: the first two and the last millisecond of
\* every minute
LedgerTimes ==
    {m * MillisInMinute + d : m \in 0..MaxMinutes, d \in {0, 1, MillisInMinute - 1}}

VARIABLES
    component,          \* the state of the V1AuthRelinquishment component
    instantiated_with,  \* the arguments of the instantiate call that made it
    account,            \* the caller's account: resource address -> amount held
    committed,          \* per kind, the sum of the buckets of the committed deposits
    audit,              \* per event type, the events of all committed transactions, summed up
    now_ms,             \* ledger time, milliseconds since the epoch
    receipt             \* receipt of the latest transaction

vars == <<component, instantiated_with, account, committed, audit, now_ms, receipt>>

\* ---- host objects -------------------------------------------------------
Bucket(resource, amount) == [resource_address |-> resource, amount |-> amount]

Vault_new(resource) == [resource_address |-> resource, amount |-> 0]

Panic(message) == [panicked |-> TRUE, error |-> message]

\* Variant of Vault_put that overwrites the amount held instead of adding to it.
Vault_put_replacing(vault, bucket) ==
    IF bucket.resource_address # vault.resource_address
    THEN Panic("VaultResourceMismatch")
    ELSE [panicked |-> FALSE,
          vault |-> [vault EXCEPT !.amount = bucket.amount]]

\* Vault::put takes the whole bucket; the host refuses a bucket of another
\* resource.
Vault_put(vault, bucket) ==
    IF bucket.resource_address # vault.resource_address
    THEN Panic("VaultResourceMismatch")
    ELSE [panicked |-> FALSE,
          vault |-> [vault EXCEPT !.amount = @ + bucket.amount]]

Vault_amount(vault) == vault.amount

\* Variant of the clock read with second precision (Clock::current_time).
current_time_in_seconds(now) == now \div MillisInSecond

\* Clock::current_time_rounded_to_minutes: the Instant of the start of the
\* minute the ledger time lies in.
current_time_rounded_to_minutes(now) ==
    (now \div MillisInMinute) * SecondsInMinute

\* ---- the blueprint ------------------------------------------------------
Return(self, emitted) == [panicked |-> FALSE, self |-> self, events |-> emitted]

\* Variant of instantiate that records the two identities in each other's field.
instantiate_swapped(v1_admin_badge_resource, v1_upgrade_badge_resource) ==
    [v1_admin_badges_vault |-> Vault_new(v1_admin_badge_resource),
     v1_upgrade_badges_vault |-> Vault_new(v1_upgrade_badge_resource),
     v1_admin_badge_resource |-> v1_upgrade_badge_resource,
     v1_upgrade_badge_resource |-> v1_admin_badge_resource]

instantiate(v1_admin_badge_resource, v1_upgrade_badge_resource) ==
    [v1_admin_badges_vault |-> Vault_new(v1_admin_badge_resource),
     v1_upgrade_badges_vault |-> Vault_new(v1_upgrade_badge_resource),
     v1_admin_badge_resource |-> v1_admin_badge_resource,
     v1_upgrade_badge_resource |-> v1_upgrade_badge_resource]

AdminEvent(locked_count, total, now) ==
    [type |-> "V1AdminBadgesLockedEvent", badges_locked |-> locked_count,
     total_locked_now |-> total, timestamp |-> current_time_rounded_to_minutes(now)]

\* Variant of lock_admin_badges that compares the bucket with the upgrade
\* badge identity.
lock_admin_badges_checks_upgrade(self, v1_admin_badges, now) ==
    IF v1_admin_badges.resource_address # self.v1_upgrade_badge_resource
    THEN Panic("Invalid V1 admin badge resource")
    ELSE LET put == Vault_put(self.v1_admin_badges_vault, v1_admin_badges)
         IN  IF put.panicked
             THEN Panic(put.error)
             ELSE Return([self EXCEPT !.v1_admin_badges_vault = put.vault],
                         <<AdminEvent(v1_admin_badges.amount, Vault_amount(put.vault), now)>>)

\* Variant of lock_admin_badges without the identity check, counting whatever
\* it is given.
lock_admin_badges_unchecked(self, v1_admin_badges, now) ==
    LET total == Vault_amount(self.v1_admin_badges_vault) + v1_admin_badges.amount
    IN  Return([self EXCEPT !.v1_admin_badges_vault.amount = total],
               <<AdminEvent(v1_admin_badges.amount, total, now)>>)

\* Variant of lock_admin_badges that builds the event before the bucket is put
\* into the vault.
lock_admin_badges_event_before_put(self, v1_admin_badges, now) ==
    IF v1_admin_badges.resource_address # self.v1_admin_badge_resource
    THEN Panic("Invalid V1 admin badge resource")
    ELSE LET event == AdminEvent(v1_admin_badges.amount,
                                 Vault_amount(self.v1_admin_badges_vault), now)
             put == Vault_put(self.v1_admin_badges_vault, v1_admin_badges)
         IN  IF put.panicked
             THEN Panic(put.error)
             ELSE Return([self EXCEPT !.v1_admin_badges_vault = put.vault], <<event>>)

\* Variant of lock_admin_badges that puts the bucket into the upgrade vault.
lock_admin_badges_into_upgrade_vault(self, v1_admin_badges, now) ==
    IF v1_admin_badges.resource_address # self.v1_admin_badge_resource
    THEN Panic("Invalid V1 admin badge resource")
    ELSE LET put == Vault_put(self.v1_upgrade_badges_vault, v1_admin_badges)
         IN  IF put.panicked
             THEN Panic(put.error)
             ELSE Return([self EXCEPT !.v1_upgrade_badges_vault = put.vault],
                         <<AdminEvent(v1_admin_badges.amount,
                                      Vault_amount(self.v1_admin_badges_vault), now)>>)

\* Variant of lock_admin_badges that puts a single badge of a larger bucket
\* into the vault.
lock_admin_badges_partial(self, v1_admin_badges, now) ==
    IF v1_admin_badges.resource_address # self.v1_admin_badge_resource
    THEN Panic("Invalid V1 admin badge resource")
    ELSE LET locked_count == v1_admin_badges.amount
             taken == IF locked_count > 1 THEN 1 ELSE locked_count
             put == Vault_put(self.v1_admin_badges_vault,
                              Bucket(v1_admin_badges.resource_address, taken))
         IN  IF put.panicked
             THEN Panic(put.error)
             ELSE Return([self EXCEPT !.v1_admin_badges_vault = put.vault],
                         <<AdminEvent(locked_count, Vault_amount(put.vault), now)>>)

\* Variant of lock_admin_badges that refuses an empty bucket.
lock_admin_badges_rejects_empty(self, v1_admin_badges, now) ==
    IF v1_admin_badges.resource_address # self.v1_admin_badge_resource
    THEN Panic("Invalid V1 admin badge resource")
    ELSE IF v1_admin_badges.amount = 0
    THEN Panic("Empty bucket")
    ELSE LET put == Vault_put(self.v1_admin_badges_vault, v1_admin_badges)
         IN  IF put.panicked
             THEN Panic(put.error)
             ELSE Return([self EXCEPT !.v1_admin_badges_vault = put.vault],
                         <<AdminEvent(v1_admin_badges.amount, Vault_amount(put.vault), now)>>)

lock_admin_badges(self, v1_admin_badges, now) ==
    IF v1_admin_badges.resource_address # self.v1_admin_badge_resource
    THEN Panic("Invalid V1 admin badge resource")
    ELSE LET locked_count == v1_admin_badges.amount
             put == Vault_put(self.v1_admin_badges_vault, v1_admin_badges)
         IN  IF put.panicked
             THEN Panic(put.error)
             ELSE LET after == [self EXCEPT !.v1_admin_badges_vault = put.vault]
                  IN  Return(after,
                        <<AdminEvent(locked_count,
                                     Vault_amount(after.v1_admin_badges_vault), now)>>)

UpgradeEvent(locked_count, total, now) ==
    [type |-> "V1UpgradeBadgeLockedEvent", badges_locked |-> locked_count,
     total_locked_now |-> total, timestamp |-> current_time_rounded_to_minutes(now)]

\* Variant of lock_upgrade_badges that puts the bucket into the admin vault.
lock_upgrade_badges_into_admin_vault(self, v1_upgrade_badges, now) ==
    IF v1_upgrade_badges.resource_address # self.v1_upgrade_badge_resource
    THEN Panic("Invalid V1 upgrade badge resource")
    ELSE LET put == Vault_put(self.v1_admin_badges_vault, v1_upgrade_badges)
         IN  IF put.panicked
             THEN Panic(put.error)
             ELSE Return([self EXCEPT !.v1_admin_badges_vault = put.vault],
                         <<UpgradeEvent(v1_upgrade_badges.amount,
                                        Vault_amount(self.v1_upgrade_badges_vault), now)>>)

\* Variant of lock_upgrade_badges that checks the bucket and emits the event
\* but leaves the merge into the vault undone.
lock_upgrade_badges_deferred(self, v1_upgrade_badges, now) ==
    IF v1_upgrade_badges.resource_address # self.v1_upgrade_badge_resource
    THEN Panic("Invalid V1 upgrade badge resource")
    ELSE Return(self,
                <<UpgradeEvent(v1_upgrade_badges.amount,
                               Vault_amount(self.v1_upgrade_badges_vault)
                                   + v1_upgrade_badges.amount, now)>>)

\* Variant of lock_upgrade_badges whose event reports the bucket amount as the
\* total locked.
lock_upgrade_badges_reports_bucket(self, v1_upgrade_badges, now) ==
    IF v1_upgrade_badges.resource_address # self.v1_upgrade_badge_resource
    THEN Panic("Invalid V1 upgrade badge resource")
    ELSE LET put == Vault_put(self.v1_upgrade_badges_vault, v1_upgrade_badges)
         IN  IF put.panicked
             THEN Panic(put.error)
             ELSE Return([self EXCEPT !.v1_upgrade_badges_vault = put.vault],
                         <<UpgradeEvent(v1_upgrade_badges.amount,
                                        v1_upgrade_badges.amount, now)>>)

\* Variant of lock_upgrade_badges that accepts a deposit only while the vault
\* is empty.
lock_upgrade_badges_single_use(self, v1_upgrade_badges, now) ==
    IF v1_upgrade_badges.resource_address # self.v1_upgrade_badge_resource
    THEN Panic("Invalid V1 upgrade badge resource")
    ELSE IF Vault_amount(self.v1_upgrade_badges_vault) > 0
    THEN Panic("Upgrade badges already locked")
    ELSE LET put == Vault_put(self.v1_upgrade_badges_vault, v1_upgrade_badges)
         IN  IF put.panicked
             THEN Panic(put.error)
             ELSE Return([self EXCEPT !.v1_upgrade_badges_vault = put.vault],
                         <<UpgradeEvent(v1_upgrade_badges.amount,
                                        Vault_amount(put.vault), now)>>)

\* Variant of lock_upgrade_badges whose event reports the total locked as the
\* amount just locked.
lock_upgrade_badges_event_counts_total(self, v1_upgrade_badges, now) ==
    IF v1_upgrade_badges.resource_address # self.v1_upgrade_badge_resource
    THEN Panic("Invalid V1 upgrade badge resource")
    ELSE LET put == Vault_put(self.v1_upgrade_badges_vault, v1_upgrade_badges)
         IN  IF put.panicked
             THEN Panic(put.error)
             ELSE Return([self EXCEPT !.v1_upgrade_badges_vault = put.vault],
                         <<UpgradeEvent(Vault_amount(put.vault),
                                        Vault_amount(put.vault), now)>>)

lock_upgrade_badges(self, v1_upgrade_badges, now) ==
    IF v1_upgrade_badges.resource_address # self.v1_upgrade_badge_resource
    THEN Panic("Invalid V1 upgrade badge resource")
    ELSE LET locked_count == v1_upgrade_badges.amount
             put == Vault_put(self.v1_upgrade_badges_vault, v1_upgrade_badges)
         IN  IF put.panicked
             THEN Panic(put.error)
             ELSE LET after == [self EXCEPT !.v1_upgrade_badges_vault = put.vault]
                  IN  Return(after,
                        <<UpgradeEvent(locked_count,
                                       Vault_amount(after.v1_upgrade_badges_vault), now)>>)

\* Variant of get_lock_status that reports the two identities in each other's
\* position.
get_lock_status_swapped(self) ==
    [admin_badges_locked |-> Vault_amount(self.v1_admin_badges_vault),
     upgrade_badges_locked |-> Vault_amount(self.v1_upgrade_badges_vault),
     admin_badge_resource |-> self.v1_upgrade_badge_resource,
     upgrade_badge_resource |-> self.v1_admin_badge_resource]

get_lock_status(self) ==
    [admin_badges_locked |-> Vault_amount(self.v1_admin_badges_vault),
     upgrade_badges_locked |-> Vault_amount(self.v1_upgrade_badges_vault),
     admin_badge_resource |-> self.v1_admin_badge_resource,
     upgrade_badge_resource |-> self.v1_upgrade_badge_resource]

\* ---- transactions -------------------------------------------------------
\* op: the method called; bucket: the bucket passed, if any; output: the value
\* returned, if any; events: the application events of the transaction
Receipt(op, bucket, outcome, error, output, emitted) ==
    [op |-> op, bucket |-> bucket, outcome |-> outcome, error |-> error,
     output |-> output, events |-> emitted]

\* the event types the blueprint declares
EventTypes == {"V1AdminBadgesLockedEvent", "V1UpgradeBadgeLockedEvent"}

\* The ledger keeps the events of every committed transaction.  Of the events
\* of one type the model keeps the sum of their badges_locked and the
\* total_locked_now of the latest one (none before the first event).
RECURSIVE Audited(_, _)
Audited(log, emitted) ==
    IF emitted = << >>
    THEN log
    ELSE LET event == Head(emitted)
         IN  Audited([log EXCEPT ![event.type] =
                          [locked_sum |-> @.locked_sum + event.badges_locked,
                           last_total |-> <<event.total_locked_now>>]],
                     Tail(emitted))

\* The state after call_function(package, "V1AuthRelinquishment",
\* "instantiate", (a, b)) has committed, at any ledger time.
Init ==
    \E a \in Resources, b \in Resources :
        /\ component = instantiate(a, b)
        /\ instantiated_with = <<a, b>>
        /\ account = [r \in Resources |-> Supply]
        /\ committed = [admin |-> 0, upgrade |-> 0]
        /\ audit = [t \in EventTypes |-> [locked_sum |-> 0, last_total |-> << >>]]
        /\ now_ms \in LedgerTimes
        /\ receipt = Receipt("instantiate", << >>, "CommitSuccess", "", << >>, << >>)

\* withdraw_from_account(resource, amount); take_all_from_worktop;
\* call_method(component, "lock_admin_badges", (bucket,))
LockAdminBadges(resource, amount) ==
    /\ amount \in 0..account[resource]
    /\ LET bucket == Bucket(resource, amount)
           result == lock_admin_badges(component, bucket, now_ms)
       IN  IF result.panicked
           THEN /\ receipt' = Receipt("lock_admin_badges", <<bucket>>,
                                      "CommitFailure", result.error, << >>, << >>)
                /\ UNCHANGED <<component, account, committed, audit>>
           ELSE /\ component' = result.self
                /\ account' = [account EXCEPT ![resource] = @ - amount]
                /\ committed' = [committed EXCEPT !.admin = @ + amount]
                /\ audit' = Audited(audit, result.events)
                /\ receipt' = Receipt("lock_admin_badges", <<bucket>>,
                                      "CommitSuccess", "", << >>, result.events)
    /\ UNCHANGED <<instantiated_with, now_ms>>

\* withdraw_from_account(resource, amount); take_all_from_worktop;
\* call_method(component, "lock_upgrade_badges", (bucket,))
LockUpgradeBadges(resource, amount) ==
    /\ amount \in 0..account[resource]
    /\ LET bucket == Bucket(resource, amount)
           result == lock_upgrade_badges(component, bucket, now_ms)
       IN  IF result.panicked
           THEN /\ receipt' = Receipt("lock_upgrade_badges", <<bucket>>,
                                      "CommitFailure", result.error, << >>, << >>)
                /\ UNCHANGED <<component, account, committed, audit>>
           ELSE /\ component' = result.self
                /\ account' = [account EXCEPT ![resource] = @ - amount]
                /\ committed' = [committed EXCEPT !.upgrade = @ + amount]
                /\ audit' = Audited(audit, result.events)
                /\ receipt' = Receipt("lock_upgrade_badges", <<bucket>>,
                                      "CommitSuccess", "", << >>, result.events)
    /\ UNCHANGED <<instantiated_with, now_ms>>

\* Variant of the get_lock_status transaction that empties the admin vault
\* while counting it.
GetLockStatus_draining ==
    /\ receipt' = Receipt("get_lock_status", << >>, "CommitSuccess", "",
                          <<get_lock_status(component)>>, << >>)
    /\ component' = [component EXCEPT !.v1_admin_badges_vault.amount = 0]
    /\ UNCHANGED <<instantiated_with, account, committed, audit, now_ms>>

\* call_method(component, "get_lock_status", ())
GetLockStatus ==
    /\ receipt' = Receipt("get_lock_status", << >>, "CommitSuccess", "",
                          <<get_lock_status(component)>>, << >>)
    /\ UNCHANGED <<component, instantiated_with, account, committed, audit, now_ms>>

\* the consensus manager starts a round and sets the ledger time forward
NextRound(time) ==
    /\ time > now_ms
    /\ now_ms' = time
    /\ UNCHANGED <<component, instantiated_with, account, committed, audit, receipt>>

Next ==
    \/ \E r \in Resources, n \in 0..Supply : LockAdminBadges(r, n)
    \/ \E r \in Resources, n \in 0..Supply : LockUpgradeBadges(r, n)
    \/ GetLockStatus
    \/ \E time \in LedgerTimes : NextRound(time)

Spec == Init /\ [][Next]_vars

\* ---- vocabulary of the properties ---------------------------------------
AdminLocked == Vault_amount(component.v1_admin_badges_vault)
UpgradeLocked == Vault_amount(component.v1_upgrade_badges_vault)

Amounts == 0..Supply

LockOps == {"lock_admin_badges", "lock_upgrade_badges"}

Committed == receipt.outcome = "CommitSuccess"
Failed == receipt.outcome = "CommitFailure"

Abs(x) == IF x < 0 THEN -x ELSE x

\* the transaction of this step was rejected with the given panic and nothing
\* of it remains: the status is what it was, the account holds what it held,
\* no event is in the receipt
RolledBack(message) ==
    /\ receipt'.outcome = "CommitFailure"
    /\ receipt'.error = message
    /\ receipt'.events = << >>
    /\ get_lock_status(component') = get_lock_status(component)
    /\ account' = account

\* the step is a lock_admin_badges (lock_upgrade_badges) transaction; its
\* bucket is the one in the receipt it leaves
DepositedResource == receipt'.bucket[1].resource_address
DepositedAmount == receipt'.bucket[1].amount

AdminDeposit ==
    /\ receipt'.op = "lock_admin_badges"
    /\ LockAdminBadges(DepositedResource, DepositedAmount)

UpgradeDeposit ==
    /\ receipt'.op = "lock_upgrade_badges"
    /\ LockUpgradeBadges(DepositedResource, DepositedAmount)

\* C1: no step of any operation, successful or failing, decreases the amount
\* held in the admin vault or the amount held in the upgrade vault.
C1_VaultsNeverDecrease ==
    [][ /\ Vault_amount(component'.v1_admin_badges_vault) >= AdminLocked
        /\ Vault_amount(component'.v1_upgrade_badges_vault) >= UpgradeLocked ]_vars

C1_Witness ==
    /\ AdminLocked > 0
    /\ UpgradeLocked > 0
    /\ Failed

\* C2: a deposit transaction commits exactly when the resource of its bucket
\* is the identity the component expects for the method called, whatever the
\* amount of the bucket and whatever the state.
C2_AcceptedIffIdentityMatches ==
    [][ /\ AdminDeposit =>
              (receipt'.outcome = "CommitSuccess"
                  <=> DepositedResource = component.v1_admin_badge_resource)
        /\ UpgradeDeposit =>
              (receipt'.outcome = "CommitSuccess"
                  <=> DepositedResource = component.v1_upgrade_badge_resource)
      ]_vars

C2_Witness ==
    /\ receipt.op = "lock_admin_badges"
    /\ Committed
    /\ receipt.bucket[1].amount = Supply
    /\ UpgradeLocked > 0
    /\ component.v1_admin_badge_resource # component.v1_upgrade_badge_resource

\* C3: a deposit whose resource is not the identity expected for the method
\* called fails with the resource mismatch panic of that method and is rolled
\* back: the lock status is the same before and after, no event is emitted and
\* the caller's account still holds the tokens.
C3_MismatchRolledBack ==
    [][ /\ (AdminDeposit /\ DepositedResource # component.v1_admin_badge_resource)
              => RolledBack("Invalid V1 admin badge resource")
        /\ (UpgradeDeposit /\ DepositedResource # component.v1_upgrade_badge_resource)
              => RolledBack("Invalid V1 upgrade badge resource")
      ]_vars

C3_Witness ==
    /\ receipt.op = "lock_admin_badges"
    /\ Failed
    /\ receipt.bucket[1].resource_address # component.v1_admin_badge_resource
    /\ receipt.bucket[1].amount > 0
    /\ account[receipt.bucket[1].resource_address] = Supply
    /\ AdminLocked > 0

\* C4: the locked amounts get_lock_status reports are, for each kind
\* separately, the sum of the amounts of the deposits of that kind that
\* committed, in whatever order they and the failed deposits were made.
C4_StatusIsSumOfDeposits ==
    /\ get_lock_status(component).admin_badges_locked = committed.admin
    /\ get_lock_status(component).upgrade_badges_locked = committed.upgrade

C4_Witness ==
    /\ receipt.op = "lock_admin_badges"
    /\ Committed
    /\ receipt.bucket[1].amount = 1
    /\ committed.admin = 2
    /\ committed.upgrade = 1
    /\ component.v1_admin_badge_resource = component.v1_upgrade_badge_resource

\* C5: get_lock_status called right after instantiate(a, b) returns zero for
\* both locked amounts, a as the admin badge resource and b as the upgrade
\* badge resource.
C5_StatusAfterInstantiate ==
    [][ (receipt.op = "instantiate" /\ GetLockStatus) =>
            receipt'.output =
                << [admin_badges_locked |-> 0,
                    upgrade_badges_locked |-> 0,
                    admin_badge_resource |-> instantiated_with[1],
                    upgrade_badge_resource |-> instantiated_with[2]] >> ]_vars

C5_Witness ==
    /\ receipt.op = "get_lock_status"
    /\ committed = [admin |-> 0, upgrade |-> 0]
    /\ receipt.output[1].admin_badges_locked = 0
    /\ receipt.output[1].admin_badge_resource = "V1ADMIN"
    /\ receipt.output[1].upgrade_badge_resource = "V1UPGRADE"

\* C6: the receipt of a committed deposit holds exactly one event, of the
\* event type of the method called, whose badges_locked is the amount of the
\* bucket and whose total_locked_now is the amount the targeted vault holds
\* after the deposit.
C6_OneEventPerDeposit ==
    (receipt.op \in LockOps /\ Committed) =>
        /\ Len(receipt.events) = 1
        /\ receipt.events[1].badges_locked = receipt.bucket[1].amount
        /\ receipt.op = "lock_admin_badges" =>
              /\ receipt.events[1].type = "V1AdminBadgesLockedEvent"
              /\ receipt.events[1].total_locked_now = AdminLocked
        /\ receipt.op = "lock_upgrade_badges" =>
              /\ receipt.events[1].type = "V1UpgradeBadgeLockedEvent"
              /\ receipt.events[1].total_locked_now = UpgradeLocked

C6_Witness ==
    /\ receipt.op = "lock_admin_badges"
    /\ Committed
    /\ receipt.events[1].badges_locked = 1
    /\ receipt.events[1].total_locked_now = 3
    /\ UpgradeLocked = 1

\* C7: in every state the two identity fields of the component are the
\* arguments instantiate was called with, and get_lock_status reports them.
C7_IdentitiesFixed ==
    /\ component.v1_admin_badge_resource = instantiated_with[1]
    /\ component.v1_upgrade_badge_resource = instantiated_with[2]
    /\ get_lock_status(component).admin_badge_resource = instantiated_with[1]
    /\ get_lock_status(component).upgrade_badge_resource = instantiated_with[2]

C7_Witness ==
    /\ instantiated_with = <<"V1UPGRADE", "FAKE">>
    /\ AdminLocked > 0
    /\ UpgradeLocked > 0
    /\ Failed
    /\ receipt.bucket[1].resource_address = "V1ADMIN"

\* C8: get_lock_status can be called in every state, commits, emits no event,
\* leaves the component (both vaults, both identities) and the caller's
\* account as they were, and returns what the call before it returned when no
\* deposit came in between.
C8_StatusHasNoEffect ==
    /\ [](ENABLED GetLockStatus)
    /\ [][ GetLockStatus =>
             /\ receipt'.outcome = "CommitSuccess"
             /\ receipt'.events = << >>
             /\ component' = component
             /\ account' = account
             /\ receipt.op = "get_lock_status" => receipt'.output = receipt.output ]_vars

C8_Witness ==
    /\ receipt.op = "get_lock_status"
    /\ receipt.output[1].admin_badges_locked > 0
    /\ receipt.output[1].upgrade_badges_locked > 0
    /\ receipt.output[1] = get_lock_status(component)

\* C9: with one transaction at a time, get_lock_status returns the sums of the
\* deposits committed before it and adds none, and a deposit that passes the
\* identity check has increased the vault in the same step: no state lies
\* between the check and the merge.
C9_StatusReflectsCommittedDeposits ==
    [][ /\ GetLockStatus =>
             /\ receipt'.output[1].admin_badges_locked = committed.admin
             /\ receipt'.output[1].upgrade_badges_locked = committed.upgrade
             /\ committed' = committed
        /\ (AdminDeposit /\ DepositedResource = component.v1_admin_badge_resource) =>
             /\ Vault_amount(component'.v1_admin_badges_vault) = AdminLocked + DepositedAmount
             /\ committed'.admin = committed.admin + DepositedAmount
        /\ (UpgradeDeposit /\ DepositedResource = component.v1_upgrade_badge_resource) =>
             /\ Vault_amount(component'.v1_upgrade_badges_vault)
                   = UpgradeLocked + DepositedAmount
             /\ committed'.upgrade = committed.upgrade + DepositedAmount
      ]_vars

C9_Witness ==
    /\ receipt.op = "get_lock_status"
    /\ receipt.output[1].admin_badges_locked = 2
    /\ receipt.output[1].upgrade_badges_locked = 3
    /\ committed = [admin |-> 2, upgrade |-> 3]

\* C10: the timestamp in the event of a committed deposit is a whole number of
\* minutes and lies less than one minute from the ledger time of the deposit.
C10_TimestampWholeMinute ==
    [][ ((AdminDeposit \/ UpgradeDeposit) /\ receipt'.outcome = "CommitSuccess") =>
          /\ receipt'.events[1].timestamp % SecondsInMinute = 0
          /\ Abs(now_ms - receipt'.events[1].timestamp * MillisInSecond) < MillisInMinute
      ]_vars

C10_Witness ==
    /\ receipt.op \in LockOps
    /\ Committed
    /\ receipt.events[1].timestamp = SecondsInMinute
    /\ now_ms = 2 * MillisInMinute - 1


\* ---- exchanging the two kinds --------------------------------------------
MirrorSelf(self) ==
    [v1_admin_badges_vault |-> self.v1_upgrade_badges_vault,
     v1_upgrade_badges_vault |-> self.v1_admin_badges_vault,
     v1_admin_badge_resource |-> self.v1_upgrade_badge_resource,
     v1_upgrade_badge_resource |-> self.v1_admin_badge_resource]

MirrorType(type) ==
    IF type = "V1AdminBadgesLockedEvent" THEN "V1UpgradeBadgeLockedEvent"
    ELSE IF type = "V1UpgradeBadgeLockedEvent" THEN "V1AdminBadgesLockedEvent"
    ELSE type

MirrorError(message) ==
    IF message = "Invalid V1 admin badge resource" THEN "Invalid V1 upgrade badge resource"
    ELSE IF message = "Invalid V1 upgrade badge resource" THEN "Invalid V1 admin badge resource"
    ELSE message

MirrorEvents(emitted) ==
    [i \in DOMAIN emitted |-> [emitted[i] EXCEPT !.type = MirrorType(@)]]

MirrorResult(result) ==
    IF result.panicked
    THEN Panic(MirrorError(result.error))
    ELSE Return(MirrorSelf(result.self), MirrorEvents(result.events))

MirrorStatus(status) ==
    [admin_badges_locked |-> status.upgrade_badges_locked,
     upgrade_badges_locked |-> status.admin_badges_locked,
     admin_badge_resource |-> status.upgrade_badge_resource,
     upgrade_badge_resource |-> status.admin_badge_resource]

\* C11: lock_admin_badges and lock_upgrade_badges are mirror images.  In every
\* reachable state and for every bucket, locking the bucket as an admin badge
\* gives the mirror image (vaults, identities, event type and panic exchanged)
\* of locking it as an upgrade badge in the mirrored component, and the other
\* way round; instantiate and get_lock_status commute with the exchange too,
\* so mirrored sequences of calls give mirrored outcomes, states and events.
C11_KindsAreSymmetric ==
    /\ \A a \in Resources, b \in Resources :
          MirrorSelf(instantiate(a, b)) = instantiate(b, a)
    /\ MirrorStatus(get_lock_status(component)) = get_lock_status(MirrorSelf(component))
    /\ \A r \in Resources, n \in Amounts :
          /\ MirrorResult(lock_admin_badges(component, Bucket(r, n), now_ms))
                = lock_upgrade_badges(MirrorSelf(component), Bucket(r, n), now_ms)
          /\ MirrorResult(lock_upgrade_badges(component, Bucket(r, n), now_ms))
                = lock_admin_badges(MirrorSelf(component), Bucket(r, n), now_ms)

C11_Witness ==
    /\ receipt.op = "lock_upgrade_badges"
    /\ Committed
    /\ AdminLocked = 1
    /\ UpgradeLocked = 3
    /\ component.v1_admin_badge_resource # component.v1_upgrade_badge_resource
    /\ now_ms >= MillisInMinute

\* C12: the component never stops accepting deposits.  In every reachable
\* state, whatever was deposited or rejected before, a bucket of the expected
\* identity of any amount is accepted by either method and merged whole, and
\* the deposit transaction of any amount the caller still holds can commit.
C12_DepositsAlwaysAccepted ==
    /\ \A n \in Amounts :
          LET result == lock_admin_badges(component,
                            Bucket(component.v1_admin_badge_resource, n), now_ms)
          IN  /\ ~result.panicked
              /\ Vault_amount(result.self.v1_admin_badges_vault) = AdminLocked + n
    /\ \A n \in Amounts :
          LET result == lock_upgrade_badges(component,
                            Bucket(component.v1_upgrade_badge_resource, n), now_ms)
          IN  /\ ~result.panicked
              /\ Vault_amount(result.self.v1_upgrade_badges_vault) = UpgradeLocked + n
    /\ \A n \in 0..account[component.v1_admin_badge_resource] :
          ENABLED (/\ LockAdminBadges(component.v1_admin_badge_resource, n)
                   /\ receipt'.outcome = "CommitSuccess")
    /\ \A n \in 0..account[component.v1_upgrade_badge_resource] :
          ENABLED (/\ LockUpgradeBadges(component.v1_upgrade_badge_resource, n)
                   /\ receipt'.outcome = "CommitSuccess")

C12_Witness ==
    /\ AdminLocked = Supply - 1
    /\ UpgradeLocked = Supply - 1
    /\ account[component.v1_admin_badge_resource] = 1
    /\ account[component.v1_upgrade_badge_resource] = 1
    /\ Failed
    /\ audit["V1AdminBadgesLockedEvent"].last_total = <<Supply - 1>>

\* C13: the two vaults are independent.  A committed lock_admin_badges adds
\* the bucket to the admin vault and leaves the upgrade vault amount as it was;
\* a committed lock_upgrade_badges adds it to the upgrade vault and leaves the
\* admin vault amount as it was, also when both kinds have the same identity.
C13_VaultsIndependent ==
    [][ /\ (AdminDeposit /\ receipt'.outcome = "CommitSuccess") =>
              /\ Vault_amount(component'.v1_admin_badges_vault) = AdminLocked + DepositedAmount
              /\ Vault_amount(component'.v1_upgrade_badges_vault) = UpgradeLocked
        /\ (UpgradeDeposit /\ receipt'.outcome = "CommitSuccess") =>
              /\ Vault_amount(component'.v1_upgrade_badges_vault)
                    = UpgradeLocked + DepositedAmount
              /\ Vault_amount(component'.v1_admin_badges_vault) = AdminLocked
      ]_vars

C13_Witness ==
    /\ receipt.op = "lock_upgrade_badges"
    /\ Committed
    /\ receipt.bucket[1].amount = 2
    /\ component.v1_admin_badge_resource = component.v1_upgrade_badge_resource
    /\ AdminLocked = 1
    /\ UpgradeLocked = 2

\* what the component's vaults hold of a resource
HeldIn(self, resource) ==
    (IF self.v1_admin_badges_vault.resource_address = resource
     THEN Vault_amount(self.v1_admin_badges_vault) ELSE 0)
    + (IF self.v1_upgrade_badges_vault.resource_address = resource
       THEN Vault_amount(self.v1_upgrade_badges_vault) ELSE 0)

\* C14: tokens are conserved.  Across every lock_admin_badges,
\* lock_upgrade_badges and get_lock_status transaction, what the caller holds
\* of a resource plus what the vaults hold of it is the same before and after;
\* a committed deposit of n moves exactly n from the caller to the targeted
\* vault, and a failed deposit moves nothing.
C14_TokensConserved ==
    [][ /\ \A q \in Resources :
             account'[q] + HeldIn(component', q) = account[q] + HeldIn(component, q)
        /\ (AdminDeposit /\ receipt'.outcome = "CommitSuccess") =>
             /\ account'[DepositedResource] = account[DepositedResource] - DepositedAmount
             /\ Vault_amount(component'.v1_admin_badges_vault) = AdminLocked + DepositedAmount
        /\ (UpgradeDeposit /\ receipt'.outcome = "CommitSuccess") =>
             /\ account'[DepositedResource] = account[DepositedResource] - DepositedAmount
             /\ Vault_amount(component'.v1_upgrade_badges_vault)
                   = UpgradeLocked + DepositedAmount
        /\ ((AdminDeposit \/ UpgradeDeposit) /\ receipt'.outcome = "CommitFailure") =>
             /\ account' = account
             /\ component' = component
      ]_vars

C14_Witness ==
    /\ component.v1_admin_badge_resource = "V1UPGRADE"
    /\ component.v1_upgrade_badge_resource = "V1UPGRADE"
    /\ account["V1UPGRADE"] = 0
    /\ HeldIn(component, "V1UPGRADE") = Supply
    /\ AdminLocked = 1
    /\ Failed
    /\ receipt.bucket[1] = Bucket("FAKE", 2)
    /\ account["FAKE"] = Supply

AdminAudit == audit["V1AdminBadgesLockedEvent"]
UpgradeAudit == audit["V1UpgradeBadgeLockedEvent"]

\* C15: the events are a consistent audit trail of the vaults.  In every
\* reachable state the badges_locked of all events of a type add up to the
\* amount of the vault of that kind and the latest event of a type carries, as
\* total_locked_now, the amount get_lock_status reports for that kind; from
\* one event of a type to the next total_locked_now never decreases.
C15_EventsAuditVaults ==
    /\ [](/\ AdminAudit.locked_sum = AdminLocked
          /\ UpgradeAudit.locked_sum = UpgradeLocked
          /\ AdminAudit.last_total # << >> =>
                AdminAudit.last_total[1] = get_lock_status(component).admin_badges_locked
          /\ UpgradeAudit.last_total # << >> =>
                UpgradeAudit.last_total[1] = get_lock_status(component).upgrade_badges_locked)
    /\ [][ \A t \in EventTypes :
             audit[t].last_total # << >> =>
                /\ audit'[t].last_total # << >>
                /\ audit'[t].last_total[1] >= audit[t].last_total[1] ]_vars

C15_Witness ==
    /\ receipt.op = "lock_upgrade_badges"
    /\ Committed
    /\ receipt.events[1].badges_locked = 1
    /\ UpgradeAudit = [locked_sum |-> 3, last_total |-> <<3>>]
    /\ AdminAudit = [locked_sum |-> 2, last_total |-> <<2>>]

\* C16: an empty bucket of the expected identity is not rejected.  The deposit
\* commits, leaves the amount of the targeted vault as it was and emits one
\* event of the method's type with badges_locked = 0 and total_locked_now equal
\* to that amount; an empty bucket of another identity fails.
C16_EmptyBucketAccepted ==
    [][ /\ (AdminDeposit /\ DepositedAmount = 0) =>
              IF DepositedResource = component.v1_admin_badge_resource
              THEN /\ receipt'.outcome = "CommitSuccess"
                   /\ Vault_amount(component'.v1_admin_badges_vault) = AdminLocked
                   /\ Len(receipt'.events) = 1
                   /\ receipt'.events[1].type = "V1AdminBadgesLockedEvent"
                   /\ receipt'.events[1].badges_locked = 0
                   /\ receipt'.events[1].total_locked_now = AdminLocked
              ELSE /\ receipt'.outcome = "CommitFailure"
                   /\ receipt'.events = << >>
        /\ (UpgradeDeposit /\ DepositedAmount = 0) =>
              IF DepositedResource = component.v1_upgrade_badge_resource
              THEN /\ receipt'.outcome = "CommitSuccess"
                   /\ Vault_amount(component'.v1_upgrade_badges_vault) = UpgradeLocked
                   /\ Len(receipt'.events) = 1
                   /\ receipt'.events[1].type = "V1UpgradeBadgeLockedEvent"
                   /\ receipt'.events[1].badges_locked = 0
                   /\ receipt'.events[1].total_locked_now = UpgradeLocked
              ELSE /\ receipt'.outcome = "CommitFailure"
                   /\ receipt'.events = << >>
      ]_vars

C16_Witness ==
    /\ receipt.op = "lock_admin_badges"
    /\ Committed
    /\ receipt.bucket[1].amount = 0
    /\ receipt.events[1].badges_locked = 0
    /\ receipt.events[1].total_locked_now = 2
    /\ AdminLocked = 2

====
